---- MODULE Spec2Model ----
(***************************************************************************)
(* A model of the macb_uio platform UIO driver (src/macb_uio.c): the       *)
(* reference-counted open/release handlers that create and stop the poll   *)
(* kthread, the ioremap/iounmap of the device's memory resources, and the  *)
(* probe/remove routines.                                                  *)
(*                                                                         *)
(* The handlers take no lock of their own, so each handler is cut at the   *)
(* points where it reads or writes the shared record (udev->refcnt,        *)
(* udev->poll_task, the kthread) and the cuts of different callers         *)
(* interleave freely.                                                      *)
(***************************************************************************)
EXTENDS Integers, Sequences, FiniteSets, TLC

\* ------------------------------------------------------------ bounds
\* Number of consumers (file holders) that call open/release.
NumConsumers == 2
\* Number of kthreads that may be created in one run (caps kthread ids).
MaxKthreads == 2
\* log2 of the page size the addresses of the model are rounded to.
PAGE_SHIFT == 2
\* Number of macb_uio_release_iomem calls the teardown runs make in a row.
MaxTeardowns == 2

\* ------------------------------------------------- program constants
\* MAX_UIO_MAPS of <linux/uio_driver.h>: the length of uio_info.mem[].
MAX_UIO_MAPS == 5
NULL == 0
ENOENT == 2
ENOMEM == 12
\* What kthread_create() returns when it fails: ERR_PTR(-ENOMEM).
ERR_PTR == -ENOMEM

PAGE_SIZE == 2 ^ PAGE_SHIFT

Consumers == 1..NumConsumers
\* The driver core's thread of control: it runs probe and remove, one at a time.
Core == NumConsumers + 1
Threads == Consumers \cup {Core}
KthreadIds == 1..MaxKthreads
Slots == 0..(MAX_UIO_MAPS - 1)

\* An absent IORESOURCE_MEM slot: platform_get_resource() returns NULL.
NoRes == [start |-> -1, end |-> -1]
\* The memory resources a slot of the platform device may hold: one that
\* starts off a page boundary with a size below one page, one page-aligned
\* with a size one byte over a page.
ResourceSet == { [start |-> PAGE_SIZE + 1, end |-> PAGE_SIZE + 2],
                 [start |-> 2 * PAGE_SIZE, end |-> 3 * PAGE_SIZE] }

VARIABLES
    refcnt,       \* udev->refcnt
    poll_task,    \* udev->poll_task: NULL or a kthread id
    kthread,      \* kthread id -> "none" | "created" | "check" | "notify" | "sleep" | "exited"
    should_stop,  \* the kthreads whose KTHREAD_SHOULD_STOP bit is set
    nKthreads,    \* kthreads created so far (the next id is nKthreads + 1)
    pc,           \* thread -> its position in the handler it runs
    stopping,     \* thread -> the kthread its kthread_stop() waits for
    resources,    \* the platform device's IORESOURCE_MEM slots
    udev,         \* the record: "none" | "allocated" | "freed"
    sysfsGroup,   \* the attribute group exists
    registered,   \* the uio device is registered: consumers can open/release
    drvdata,      \* platform drvdata points to the record
    probeRet,     \* <<what macb_uio_probe returned>>, <<>> before it returns
    mem,          \* udev->info.mem[]: slot -> [memtype, addr, size, internal_addr]
    unmaps,       \* slot -> iounmap calls issued on that entry's internal_addr
    nTeardown,    \* macb_uio_release_iomem calls made so far
    err,          \* macb_uio_probe's local err
    nStops,       \* kthread_stop() calls issued so far
    overlap,      \* some handler call began while another was in progress
    phase,        \* "opens": only open calls so far; "closes": then only release
                  \* calls, the first begun with no open in progress; else "mixed"
    relEntry,     \* <<refcnt when the core's release call began>>, <<>> before
    relRet        \* <<what the core's release call returned>>, <<>> before

vars == <<refcnt, poll_task, kthread, should_stop, nKthreads, pc, stopping,
          resources, udev, sysfsGroup, registered, drvdata, probeRet,
          mem, unmaps, nTeardown, err, nStops, overlap, phase, relEntry, relRet>>

sessionVars == <<refcnt, poll_task, kthread, should_stop, nKthreads, stopping,
                 nStops, overlap, phase, relEntry, relRet>>

\* ------------------------------------------------------ region mapping
\* PageMask without the mask: the start address is stored as it is.
PageMask_NoMask(addr) == addr

\* addr & PAGE_MASK
PageMask(addr) == addr - (addr % PAGE_SIZE)
\* PAGE_ALIGN(size)
PAGE_ALIGN(size) == ((size + PAGE_SIZE - 1) \div PAGE_SIZE) * PAGE_SIZE
resource_size(res) == res.end - res.start + 1

\* An entry of the kzalloc'd record: all fields zero (memtype 0 is UIO_MEM_NONE).
ZeroMem == [memtype |-> "UIO_MEM_NONE", addr |-> 0, size |-> 0, internal_addr |-> NULL]

\* ioremap(): a cookie for the mapping, or NULL when the call fails.  The
\* cookie of the mapping stored in mem[iom] is iom + 1.
ioremap(iom, ok) == IF ok THEN iom + 1 ELSE NULL

\* The loop of macb_uio_setup_iomem from slot i on, iom entries filled so
\* far; okSlots are the slots whose ioremap() call succeeds.
RECURSIVE SetupLoop(_, _, _, _, _)
SetupLoop(i, iom, m, res, okSlots) ==
    IF i = MAX_UIO_MAPS THEN [mem |-> m, iom |-> iom]
    ELSE IF res[i] = NoRes THEN SetupLoop(i + 1, iom, m, res, okSlots)
    ELSE SetupLoop(i + 1, iom + 1,
                   [m EXCEPT ![iom] =
                       [memtype |-> "UIO_MEM_PHYS",
                        addr |-> PageMask(res[i].start),
                        size |-> PAGE_ALIGN(resource_size(res[i])),
                        internal_addr |-> ioremap(iom, i \in okSlots)]],
                   res, okSlots)

\* macb_uio_setup_iomem: the filled mem[] and the return value.
macb_uio_setup_iomem(res, okSlots) ==
    LET r == SetupLoop(0, 0, [i \in Slots |-> ZeroMem], res, okSlots)
    IN  [mem |-> r.mem, iom |-> r.iom, err |-> IF r.iom # 0 THEN 0 ELSE -ENOENT]

\* macb_uio_release_iomem: one iounmap per entry whose internal_addr is set;
\* the entries themselves are left as they are.
macb_uio_release_iomem(m, u) ==
    [i \in Slots |-> IF m[i].internal_addr # NULL THEN u[i] + 1 ELSE u[i]]

Present(res) == {i \in Slots : res[i] # NoRes}

\* ----------------------------------------------------------- threads
\* Positions at which a thread is between two handler calls.
AtRest == {"closed", "opened", "unbound", "probe_failed", "bound", "rm_done"}
\* Thread t is inside a handler call (or died inside one).
InCall(t) == pc[t] \notin AtRest
\* Some thread other than t is inside a handler call.
Busy(t) == \E u \in Threads \ {t} : InCall(u)

\* Some consumer is inside macb_uio_open.
OpenInProgress == \E c \in Consumers : pc[c] \in {"open_create", "open_wake"}

\* A kthread that was woken and has not exited runs macb_uio_poll.
Running(k) == kthread[k] \in {"check", "notify", "sleep"}

\* --------------------------------------------------------- macb_uio_poll
\* PollCheck with the loop condition always true: the kthread goes on to
\* notify whether or not it was told to stop.
PollCheck_IgnoreStop(k) ==
    /\ kthread[k] = "check"
    /\ kthread' = [kthread EXCEPT ![k] = "notify"]
    /\ UNCHANGED <<refcnt, poll_task, should_stop, nKthreads, pc, stopping,
                   resources, udev, sysfsGroup, registered, drvdata, probeRet,
                   mem, unmaps, nTeardown, err, nStops, overlap, phase, relEntry, relRet>>

\* while (!kthread_should_stop())
PollCheck(k) ==
    /\ kthread[k] = "check"
    /\ kthread' = [kthread EXCEPT ![k] =
                       IF k \in should_stop THEN "exited" ELSE "notify"]
    /\ UNCHANGED <<refcnt, poll_task, should_stop, nKthreads, pc, stopping,
                   resources, udev, sysfsGroup, registered, drvdata, probeRet,
                   mem, unmaps, nTeardown, err, nStops, overlap, phase, relEntry, relRet>>

\* uio_event_notify(info)
PollNotify(k) ==
    /\ kthread[k] = "notify"
    /\ kthread' = [kthread EXCEPT ![k] = "sleep"]
    /\ UNCHANGED <<refcnt, poll_task, should_stop, nKthreads, pc, stopping,
                   resources, udev, sysfsGroup, registered, drvdata, probeRet,
                   mem, unmaps, nTeardown, err, nStops, overlap, phase, relEntry, relRet>>

\* uio_event_notify(info) once the record that holds info has been
\* kfree'd: a use after free, which either goes unnoticed (PollNotify) or
\* kills the kthread.
PollNotifyFreed(k) ==
    /\ kthread[k] = "notify"
    /\ udev = "freed"
    /\ kthread' = [kthread EXCEPT ![k] = "exited"]
    /\ UNCHANGED <<refcnt, poll_task, should_stop, nKthreads, pc, stopping,
                   resources, udev, sysfsGroup, registered, drvdata, probeRet,
                   mem, unmaps, nTeardown, err, nStops, overlap, phase, relEntry, relRet>>

\* msleep(UIO_POLL_INTERVAL)
PollSleep(k) ==
    /\ kthread[k] = "sleep"
    /\ kthread' = [kthread EXCEPT ![k] = "check"]
    /\ UNCHANGED <<refcnt, poll_task, should_stop, nKthreads, pc, stopping,
                   resources, udev, sysfsGroup, registered, drvdata, probeRet,
                   mem, unmaps, nTeardown, err, nStops, overlap, phase, relEntry, relRet>>

\* A kthread stopped before it was ever woken exits without running
\* macb_uio_poll (the kernel's kthread() tests KTHREAD_SHOULD_STOP first).
KthreadExitUnwoken(k) ==
    /\ kthread[k] = "created"
    /\ k \in should_stop
    /\ kthread' = [kthread EXCEPT ![k] = "exited"]
    /\ UNCHANGED <<refcnt, poll_task, should_stop, nKthreads, pc, stopping,
                   resources, udev, sysfsGroup, registered, drvdata, probeRet,
                   mem, unmaps, nTeardown, err, nStops, overlap, phase, relEntry, relRet>>

\* --------------------------------------------------------- macb_uio_open
\* OpenInc without the test of the incremented count: every open goes on
\* to create a kthread.
OpenInc_NoFirstTest(c) ==
    /\ pc[c] = "closed"
    /\ registered
    /\ nKthreads + Cardinality({t \in Consumers : pc[t] = "open_create"}) < MaxKthreads
    /\ refcnt' = refcnt + 1
    /\ pc' = [pc EXCEPT ![c] = "open_create"]
    /\ overlap' = (overlap \/ Busy(c))
    /\ phase' = IF phase = "opens" THEN "opens" ELSE "mixed"
    /\ UNCHANGED <<poll_task, kthread, should_stop, nKthreads, stopping,
                   resources, udev, sysfsGroup, registered, drvdata, probeRet,
                   mem, unmaps, nTeardown, err, nStops, relEntry, relRet>>

\* atomic_inc_return(&udev->refcnt) != 1: return 0.  The framework calls
\* the handler only on a registered device.
OpenInc(c) ==
    /\ pc[c] = "closed"
    /\ registered
    /\ (refcnt + 1 = 1) =>
          nKthreads + Cardinality({t \in Consumers : pc[t] = "open_create"}) < MaxKthreads
    /\ refcnt' = refcnt + 1
    /\ pc' = [pc EXCEPT ![c] = IF refcnt + 1 # 1 THEN "opened" ELSE "open_create"]
    /\ overlap' = (overlap \/ Busy(c))
    /\ phase' = IF phase = "opens" THEN "opens" ELSE "mixed"
    /\ UNCHANGED <<poll_task, kthread, should_stop, nKthreads, stopping,
                   resources, udev, sysfsGroup, registered, drvdata, probeRet,
                   mem, unmaps, nTeardown, err, nStops, relEntry, relRet>>

\* udev->poll_task = kthread_create(macb_uio_poll, info, ...)
OpenCreate(c) ==
    /\ pc[c] = "open_create"
    /\ nKthreads' = nKthreads + 1
    /\ kthread' = [kthread EXCEPT ![nKthreads + 1] = "created"]
    /\ poll_task' = nKthreads + 1
    /\ pc' = [pc EXCEPT ![c] = "open_wake"]
    /\ UNCHANGED <<refcnt, should_stop, stopping,
                   resources, udev, sysfsGroup, registered, drvdata, probeRet,
                   mem, unmaps, nTeardown, err, nStops, overlap, phase, relEntry, relRet>>

\* kthread_bind(udev->poll_task, 0); wake_up_process(udev->poll_task);
\* return 0.  Both calls read udev->poll_task again; waking a kthread that
\* already runs changes nothing.
OpenWake(c) ==
    /\ pc[c] = "open_wake"
    /\ poll_task \in KthreadIds
    /\ kthread[poll_task] # "exited"
    /\ kthread' = [kthread EXCEPT ![poll_task] =
                       IF @ = "created" THEN "check" ELSE @]
    /\ pc' = [pc EXCEPT ![c] = "opened"]
    /\ UNCHANGED <<refcnt, poll_task, should_stop, nKthreads, stopping,
                   resources, udev, sysfsGroup, registered, drvdata, probeRet,
                   mem, unmaps, nTeardown, err, nStops, overlap, phase, relEntry, relRet>>

\* The same two calls on a kthread that has exited and been released by
\* its stopper: a use after free, which either goes unnoticed or kills the
\* caller inside the handler.
OpenWakeStale(c) ==
    /\ pc[c] = "open_wake"
    /\ poll_task \in KthreadIds
    /\ kthread[poll_task] = "exited"
    /\ \E out \in {"opened", "oops"} : pc' = [pc EXCEPT ![c] = out]
    /\ UNCHANGED <<refcnt, poll_task, kthread, should_stop, nKthreads, stopping,
                   resources, udev, sysfsGroup, registered, drvdata, probeRet,
                   mem, unmaps, nTeardown, err, nStops, overlap, phase, relEntry, relRet>>

\* udev->poll_task = kthread_create(...) when kthread_create() fails: the
\* error pointer is stored, and the handler goes on, as it has no IS_ERR test.
OpenCreateFail(c) ==
    /\ pc[c] = "open_create"
    /\ poll_task' = ERR_PTR
    /\ pc' = [pc EXCEPT ![c] = "open_wake"]
    /\ UNCHANGED <<refcnt, kthread, should_stop, nKthreads, stopping,
                   resources, udev, sysfsGroup, registered, drvdata, probeRet,
                   mem, unmaps, nTeardown, err, nStops, overlap, phase, relEntry, relRet>>

\* kthread_bind(udev->poll_task, 0) on the error pointer: the dereference
\* of an address no mapping covers kills the caller inside the handler.
OpenBindErrPtr(c) ==
    /\ pc[c] = "open_wake"
    /\ poll_task = ERR_PTR
    /\ pc' = [pc EXCEPT ![c] = "oops"]
    /\ UNCHANGED <<refcnt, poll_task, kthread, should_stop, nKthreads, stopping,
                   resources, udev, sysfsGroup, registered, drvdata, probeRet,
                   mem, unmaps, nTeardown, err, nStops, overlap, phase, relEntry, relRet>>

\* A consumer's handler about to read or write udev->poll_task once the
\* record has been kfree'd by macb_uio_remove: a use after free, which
\* either goes unnoticed (the handler's own steps) or kills the caller
\* inside the handler.
HandlerUseAfterFree(c) ==
    /\ pc[c] \in {"open_create", "open_wake", "rel_stop"}
    /\ udev = "freed"
    /\ pc' = [pc EXCEPT ![c] = "oops"]
    /\ UNCHANGED <<refcnt, poll_task, kthread, should_stop, nKthreads, stopping,
                   resources, udev, sysfsGroup, registered, drvdata, probeRet,
                   mem, unmaps, nTeardown, err, nStops, overlap, phase, relEntry, relRet>>

\* ------------------------------------------------------ macb_uio_release
\* Where a thread is when its release call returns.
Released(t) == IF t = Core THEN "rm_unregister" ELSE "closed"

\* ReleaseDec without the test of the decremented count: every release
\* goes on to kthread_stop().
ReleaseDec_AlwaysStop(c) ==
    /\ pc[c] = "opened"
    /\ registered
    /\ refcnt' = refcnt - 1
    /\ pc' = [pc EXCEPT ![c] = "rel_stop"]
    /\ overlap' = (overlap \/ Busy(c))
    /\ phase' = IF phase = "closes" \/ (phase = "opens" /\ ~OpenInProgress)
                THEN "closes" ELSE "mixed"
    /\ UNCHANGED <<poll_task, kthread, should_stop, nKthreads, stopping,
                   resources, udev, sysfsGroup, registered, drvdata, probeRet,
                   mem, unmaps, nTeardown, err, nStops, relEntry, relRet>>

\* ReleaseDec stopping the kthread one close early: it goes on to
\* kthread_stop() when the decremented count is 1 or less.
ReleaseDec_OffByOne(c) ==
    /\ pc[c] = "opened"
    /\ registered
    /\ refcnt' = refcnt - 1
    /\ pc' = [pc EXCEPT ![c] = IF refcnt - 1 <= 1 THEN "rel_stop" ELSE Released(c)]
    /\ overlap' = (overlap \/ Busy(c))
    /\ phase' = IF phase = "closes" \/ (phase = "opens" /\ ~OpenInProgress)
                THEN "closes" ELSE "mixed"
    /\ UNCHANGED <<poll_task, kthread, should_stop, nKthreads, stopping,
                   resources, udev, sysfsGroup, registered, drvdata, probeRet,
                   mem, unmaps, nTeardown, err, nStops, relEntry, relRet>>

\* atomic_dec_and_test(&udev->refcnt), called for consumer c by the
\* framework; when the result is not zero: return 0.
ReleaseDec(c) ==
    /\ pc[c] = "opened"
    /\ registered
    /\ refcnt' = refcnt - 1
    /\ pc' = [pc EXCEPT ![c] = IF refcnt - 1 = 0 THEN "rel_stop" ELSE Released(c)]
    /\ overlap' = (overlap \/ Busy(c))
    /\ phase' = IF phase = "closes" \/ (phase = "opens" /\ ~OpenInProgress)
                THEN "closes" ELSE "mixed"
    /\ UNCHANGED <<poll_task, kthread, should_stop, nKthreads, stopping,
                   resources, udev, sysfsGroup, registered, drvdata, probeRet,
                   mem, unmaps, nTeardown, err, nStops, relEntry, relRet>>

\* kthread_stop(udev->poll_task), first half: set KTHREAD_SHOULD_STOP on
\* the kthread udev->poll_task names now, and wake it.
KthreadStop(t) ==
    /\ pc[t] = "rel_stop"
    /\ poll_task \in KthreadIds
    /\ kthread[poll_task] # "exited"
    /\ should_stop' = should_stop \cup {poll_task}
    /\ stopping' = [stopping EXCEPT ![t] = poll_task]
    /\ nStops' = nStops + 1
    /\ pc' = [pc EXCEPT ![t] = "rel_join"]
    /\ UNCHANGED <<refcnt, poll_task, kthread, nKthreads,
                   resources, udev, sysfsGroup, registered, drvdata, probeRet,
                   mem, unmaps, nTeardown, err, overlap, phase, relEntry, relRet>>

\* kthread_stop(), second half: wait for the kthread to exit; return 0.
KthreadJoin(t) ==
    /\ pc[t] = "rel_join"
    /\ kthread[stopping[t]] = "exited"
    /\ stopping' = [stopping EXCEPT ![t] = NULL]
    /\ pc' = [pc EXCEPT ![t] = Released(t)]
    /\ relRet' = IF t = Core THEN <<0>> ELSE relRet
    /\ UNCHANGED <<refcnt, poll_task, kthread, should_stop, nKthreads,
                   resources, udev, sysfsGroup, registered, drvdata, probeRet,
                   mem, unmaps, nTeardown, err, nStops, overlap, phase, relEntry>>

\* kthread_stop() on a kthread that has exited and been released by an
\* earlier kthread_stop(): a use after free, which either returns at once
\* or kills the caller inside the handler.
KthreadStopStale(t) ==
    /\ pc[t] = "rel_stop"
    /\ poll_task \in KthreadIds
    /\ kthread[poll_task] = "exited"
    /\ nStops' = nStops + 1
    /\ \E out \in {Released(t), "oops"} :
          /\ pc' = [pc EXCEPT ![t] = out]
          /\ relRet' = IF t = Core /\ out # "oops" THEN <<0>> ELSE relRet
    /\ UNCHANGED <<refcnt, poll_task, kthread, should_stop, nKthreads, stopping,
                   resources, udev, sysfsGroup, registered, drvdata, probeRet,
                   mem, unmaps, nTeardown, err, overlap, phase, relEntry>>

\* kthread_stop(NULL): udev->poll_task was never set; the NULL dereference
\* kills the caller inside the handler.
KthreadStopNull(t) ==
    /\ pc[t] = "rel_stop"
    /\ poll_task = NULL
    /\ nStops' = nStops + 1
    /\ pc' = [pc EXCEPT ![t] = "oops"]
    /\ UNCHANGED <<refcnt, poll_task, kthread, should_stop, nKthreads, stopping,
                   resources, udev, sysfsGroup, registered, drvdata, probeRet,
                   mem, unmaps, nTeardown, err, overlap, phase, relEntry, relRet>>

\* kthread_stop(udev->poll_task) on the error pointer a failed
\* kthread_create() left there: the dereference kills the caller.
KthreadStopErrPtr(t) ==
    /\ pc[t] = "rel_stop"
    /\ poll_task = ERR_PTR
    /\ nStops' = nStops + 1
    /\ pc' = [pc EXCEPT ![t] = "oops"]
    /\ UNCHANGED <<refcnt, poll_task, kthread, should_stop, nKthreads, stopping,
                   resources, udev, sysfsGroup, registered, drvdata, probeRet,
                   mem, unmaps, nTeardown, err, overlap, phase, relEntry, relRet>>

\* -------------------------------------------------------- macb_uio_probe
\* udev = kzalloc(...): the record, all fields zero.
ProbeAlloc ==
    /\ pc[Core] = "unbound"
    /\ udev' = "allocated"
    /\ mem' = [i \in Slots |-> ZeroMem]
    /\ pc' = [pc EXCEPT ![Core] = "probe_setup"]
    /\ UNCHANGED <<sessionVars, resources, sysfsGroup, registered, drvdata,
                   probeRet, unmaps, nTeardown, err>>

\* if (!udev) return -ENOMEM;
ProbeAllocFail ==
    /\ pc[Core] = "unbound"
    /\ probeRet' = <<-ENOMEM>>
    /\ pc' = [pc EXCEPT ![Core] = "probe_failed"]
    /\ UNCHANGED <<sessionVars, resources, udev, sysfsGroup, registered, drvdata,
                   mem, unmaps, nTeardown, err>>

\* err = macb_uio_setup_iomem(dev, &udev->info); if (err) goto fail_release_iomem;
\* Each ioremap() of a present slot succeeds or fails.
ProbeSetupIomem ==
    /\ pc[Core] = "probe_setup"
    /\ \E okSlots \in SUBSET Present(resources) :
          LET r == macb_uio_setup_iomem(resources, okSlots) IN
          /\ mem' = r.mem
          /\ err' = r.err
          /\ pc' = [pc EXCEPT ![Core] =
                        IF r.err # 0 THEN "fail_release_iomem" ELSE "probe_sysfs"]
    /\ UNCHANGED <<sessionVars, resources, udev, sysfsGroup, registered, drvdata,
                   probeRet, unmaps, nTeardown>>

\* The uio_info fields are filled, atomic_set(&udev->refcnt, 0), and
\* sysfs_create_group() succeeds.
ProbeSysfs ==
    /\ pc[Core] = "probe_sysfs"
    /\ refcnt' = 0
    /\ sysfsGroup' = TRUE
    /\ err' = 0
    /\ pc' = [pc EXCEPT ![Core] = "probe_register"]
    /\ UNCHANGED <<poll_task, kthread, should_stop, nKthreads, stopping,
                   resources, udev, registered, drvdata, probeRet,
                   mem, unmaps, nTeardown, nStops, overlap, phase, relEntry, relRet>>

\* sysfs_create_group() fails: goto fail_release_iomem.
ProbeSysfsFail ==
    /\ pc[Core] = "probe_sysfs"
    /\ refcnt' = 0
    /\ err' = -ENOMEM
    /\ pc' = [pc EXCEPT ![Core] = "fail_release_iomem"]
    /\ UNCHANGED <<poll_task, kthread, should_stop, nKthreads, stopping,
                   resources, udev, sysfsGroup, registered, drvdata, probeRet,
                   mem, unmaps, nTeardown, nStops, overlap, phase, relEntry, relRet>>

\* uio_register_device() succeeds: consumers can open the device from here.
ProbeRegister ==
    /\ pc[Core] = "probe_register"
    /\ registered' = TRUE
    /\ err' = 0
    /\ pc' = [pc EXCEPT ![Core] = "probe_drvdata"]
    /\ UNCHANGED <<sessionVars, resources, udev, sysfsGroup, drvdata, probeRet,
                   mem, unmaps, nTeardown>>

\* ProbeRegisterFail jumping to the wrong label, fail_release_iomem: the
\* attribute group is left behind.
ProbeRegisterFail_WrongLabel ==
    /\ pc[Core] = "probe_register"
    /\ err' = -ENOMEM
    /\ pc' = [pc EXCEPT ![Core] = "fail_release_iomem"]
    /\ UNCHANGED <<sessionVars, resources, udev, sysfsGroup, registered, drvdata,
                   probeRet, mem, unmaps, nTeardown>>

\* uio_register_device() fails: goto fail_remove_group.
ProbeRegisterFail ==
    /\ pc[Core] = "probe_register"
    /\ err' = -ENOMEM
    /\ pc' = [pc EXCEPT ![Core] = "fail_remove_group"]
    /\ UNCHANGED <<sessionVars, resources, udev, sysfsGroup, registered, drvdata,
                   probeRet, mem, unmaps, nTeardown>>

\* platform_set_drvdata(dev, udev); the scratch DMA mapping changes nothing
\* of the record; return 0.
ProbeSetDrvdata ==
    /\ pc[Core] = "probe_drvdata"
    /\ drvdata' = TRUE
    /\ probeRet' = <<0>>
    /\ pc' = [pc EXCEPT ![Core] = "bound"]
    /\ UNCHANGED <<sessionVars, resources, udev, sysfsGroup, registered,
                   mem, unmaps, nTeardown, err>>

\* fail_remove_group: sysfs_remove_group(...)
FailRemoveGroup ==
    /\ pc[Core] = "fail_remove_group"
    /\ sysfsGroup' = FALSE
    /\ pc' = [pc EXCEPT ![Core] = "fail_release_iomem"]
    /\ UNCHANGED <<sessionVars, resources, udev, registered, drvdata, probeRet,
                   mem, unmaps, nTeardown, err>>

\* fail_release_iomem: macb_uio_release_iomem(&udev->info); kfree(udev); return err;
FailReleaseIomem ==
    /\ pc[Core] = "fail_release_iomem"
    /\ unmaps' = macb_uio_release_iomem(mem, unmaps)
    /\ nTeardown' = nTeardown + 1
    /\ udev' = "freed"
    /\ probeRet' = <<err>>
    /\ pc' = [pc EXCEPT ![Core] = "probe_failed"]
    /\ UNCHANGED <<sessionVars, resources, sysfsGroup, registered, drvdata,
                   mem, err>>

\* ------------------------------------------------------- macb_uio_remove
\* udev = platform_get_drvdata(dev) is set on every bound device, so the
\* !udev return is not taken.  macb_uio_release(&udev->info, NULL): its
\* atomic_dec_and_test; when the result is not zero it returns 0.
RemoveRelease ==
    /\ pc[Core] = "bound"
    /\ drvdata
    /\ relEntry' = <<refcnt>>
    /\ refcnt' = refcnt - 1
    /\ pc' = [pc EXCEPT ![Core] = IF refcnt - 1 = 0 THEN "rel_stop" ELSE Released(Core)]
    /\ relRet' = IF refcnt - 1 = 0 THEN relRet ELSE <<0>>
    /\ overlap' = (overlap \/ Busy(Core))
    /\ phase' = "mixed"
    /\ UNCHANGED <<poll_task, kthread, should_stop, nKthreads, stopping,
                   resources, udev, sysfsGroup, registered, drvdata, probeRet,
                   mem, unmaps, nTeardown, err, nStops>>

\* RemoveUnregister with the unmapping moved before it: the regions are
\* unmapped and the device is left registered.
RemoveUnregister_UnmapFirst ==
    /\ pc[Core] = "rm_unregister"
    /\ unmaps' = macb_uio_release_iomem(mem, unmaps)
    /\ nTeardown' = nTeardown + 1
    /\ pc' = [pc EXCEPT ![Core] = "rm_free"]
    /\ UNCHANGED <<sessionVars, resources, udev, sysfsGroup, registered, drvdata,
                   probeRet, mem, err>>

\* sysfs_remove_group(...); uio_unregister_device(&udev->info);
RemoveUnregister ==
    /\ pc[Core] = "rm_unregister"
    /\ sysfsGroup' = FALSE
    /\ registered' = FALSE
    /\ pc' = [pc EXCEPT ![Core] = "rm_iomem"]
    /\ UNCHANGED <<sessionVars, resources, udev, drvdata, probeRet,
                   mem, unmaps, nTeardown, err>>

\* macb_uio_release_iomem(&udev->info);
RemoveReleaseIomem ==
    /\ pc[Core] = "rm_iomem"
    /\ unmaps' = macb_uio_release_iomem(mem, unmaps)
    /\ nTeardown' = nTeardown + 1
    /\ pc' = [pc EXCEPT ![Core] = "rm_free"]
    /\ UNCHANGED <<sessionVars, resources, udev, sysfsGroup, registered, drvdata,
                   probeRet, mem, err>>

\* platform_set_drvdata(dev, NULL); kfree(udev); return 0;
RemoveFree ==
    /\ pc[Core] = "rm_free"
    /\ drvdata' = FALSE
    /\ udev' = "freed"
    /\ pc' = [pc EXCEPT ![Core] = "rm_done"]
    /\ UNCHANGED <<sessionVars, resources, sysfsGroup, registered, probeRet,
                   mem, unmaps, nTeardown, err>>

\* -------------------------------------------------------- specifications
\* What no run has touched yet.
InitSession ==
    /\ refcnt = 0
    /\ poll_task = NULL
    /\ kthread = [k \in KthreadIds |-> "none"]
    /\ should_stop = {}
    /\ nKthreads = 0
    /\ stopping = [t \in Threads |-> NULL]
    /\ nStops = 0
    /\ overlap = FALSE
    /\ phase = "opens"
    /\ relEntry = <<>>
    /\ relRet = <<>>
    /\ unmaps = [i \in Slots |-> 0]
    /\ nTeardown = 0

\* The platform device of the session runs: one memory resource, the
\* register block, and the other slots absent.
SessionResources ==
    [i \in Slots |-> IF i = 0 THEN [start |-> 2 * PAGE_SIZE, end |-> 3 * PAGE_SIZE]
                     ELSE NoRes]

\* A device macb_uio_probe has just bound: registered, no consumer yet; the
\* ioremap() of its resource succeeded or failed.
Init ==
    /\ InitSession
    /\ pc = [t \in Threads |-> IF t = Core THEN "bound" ELSE "closed"]
    /\ resources = SessionResources
    /\ \E okSlots \in SUBSET Present(resources) :
          mem = macb_uio_setup_iomem(resources, okSlots).mem
    /\ udev = "allocated"
    /\ sysfsGroup = TRUE
    /\ registered = TRUE
    /\ drvdata = TRUE
    /\ probeRet = <<0>>
    /\ err = 0

PollStep == \E k \in KthreadIds :
    \/ PollCheck(k) \/ PollNotify(k) \/ PollNotifyFreed(k) \/ PollSleep(k)
    \/ KthreadExitUnwoken(k)

OpenStep == \E c \in Consumers :
    \/ OpenInc(c) \/ OpenCreate(c) \/ OpenWake(c) \/ OpenWakeStale(c)
    \/ HandlerUseAfterFree(c)

ReleaseStep ==
    \/ \E c \in Consumers : ReleaseDec(c)
    \/ \E t \in Threads :
          KthreadStop(t) \/ KthreadJoin(t) \/ KthreadStopStale(t) \/ KthreadStopNull(t)

RemoveStep == RemoveRelease \/ RemoveUnregister \/ RemoveReleaseIomem \/ RemoveFree

\* Consumers opening and releasing a bound device, its poll kthreads, and
\* the driver core removing it.
Next == PollStep \/ OpenStep \/ ReleaseStep \/ RemoveStep

Spec == Init /\ [][Next]_vars

\* A woken kthread is scheduled again and again, and msleep() returns:
\* each step of macb_uio_poll that can be taken is taken in the end.
PollFairness ==
    \A k \in KthreadIds :
        /\ WF_vars(PollCheck(k))
        /\ WF_vars(PollNotify(k))
        /\ WF_vars(PollSleep(k))

FairSpec == Spec /\ PollFairness

\* The platform devices that may arrive: every slot absent or holding one
\* of the resources.
Descriptors == [Slots -> ResourceSet \cup {NoRes}]

\* A platform device the driver core has not bound yet.
InitProbe ==
    /\ InitSession
    /\ pc = [t \in Threads |-> IF t = Core THEN "unbound" ELSE "closed"]
    /\ resources \in Descriptors
    /\ mem = [i \in Slots |-> ZeroMem]
    /\ udev = "none"
    /\ sysfsGroup = FALSE
    /\ registered = FALSE
    /\ drvdata = FALSE
    /\ probeRet = <<>>
    /\ err = 0

ProbeStep ==
    \/ ProbeAlloc \/ ProbeAllocFail \/ ProbeSetupIomem
    \/ ProbeSysfs \/ ProbeSysfsFail \/ ProbeRegister \/ ProbeRegisterFail
    \/ ProbeSetDrvdata \/ FailRemoveGroup \/ FailReleaseIomem

\* Arrival of a device and, once it is bound, its removal, with no consumer.
NextProbe == ProbeStep \/ RemoveStep

SpecProbe == InitProbe /\ [][NextProbe]_vars

CreateFailStep ==
    \/ \E c \in Consumers : OpenCreateFail(c) \/ OpenBindErrPtr(c)
    \/ \E t \in Threads : KthreadStopErrPtr(t)

\* The session runs in which kthread_create() may also fail.
NextCreateFail == Next \/ CreateFailStep

SpecCreateFail == Init /\ [][NextCreateFail]_vars

\* macb_uio_setup_iomem applied to a fresh record.
IomemSetup ==
    /\ udev = "none"
    /\ udev' = "allocated"
    /\ \E okSlots \in SUBSET Present(resources) :
          mem' = macb_uio_setup_iomem(resources, okSlots).mem
    /\ UNCHANGED <<sessionVars, pc, resources, sysfsGroup, registered, drvdata,
                   probeRet, unmaps, nTeardown, err>>

\* macb_uio_release_iomem applied to the record, again and again.
IomemTeardown ==
    /\ udev = "allocated"
    /\ nTeardown < MaxTeardowns
    /\ unmaps' = macb_uio_release_iomem(mem, unmaps)
    /\ nTeardown' = nTeardown + 1
    /\ UNCHANGED <<sessionVars, pc, resources, udev, sysfsGroup, registered,
                   drvdata, probeRet, mem, err>>

NextIomem == IomemSetup \/ IomemTeardown

\* The two region functions on their own: setup once, then teardown calls.
SpecIomem == InitProbe /\ [][NextIomem]_vars

\* ----------------------------------------------------------------- claims
\* No thread is inside a handler call.
Quiescent == \A t \in Threads : ~InCall(t)
\* Opens that have returned minus releases that have returned: each consumer
\* opens and releases in turn, so it is the number of consumers holding the
\* device open.
Outstanding == Cardinality({c \in Consumers : pc[c] = "opened"})
RunningKthreads == {k \in KthreadIds : Running(k)}

\* C1: after each call of a sequential run of open() and close() calls (one
\* call at a time, never more closes than opens, no removal), the poll
\* kthread runs if and only if opens - closes > 0, and the reference count
\* is that difference.
C1_SequentialWorkerIffOpen ==
    (~overlap /\ pc[Core] = "bound" /\ Quiescent) =>
        /\ refcnt = Outstanding
        /\ (RunningKthreads # {}) <=> (Outstanding > 0)
        /\ Cardinality(RunningKthreads) <= 1

\* C1 witness: a sequential run in which a kthread was stopped on the last
\* close and a second one started on the next open and is running alone.
C1_Witness ==
    /\ ~overlap /\ pc[Core] = "bound" /\ Quiescent
    /\ nKthreads = 2 /\ nStops = 1
    /\ refcnt = 1 /\ Outstanding = 1
    /\ kthread[1] = "exited" /\ Running(2)

\* C2: under every interleaving of the consumers' open() and close() calls
\* (no removal), at most one poll kthread has been started and not yet
\* stopped.
C2_AtMostOneWorker ==
    pc[Core] = "bound" => Cardinality(RunningKthreads) <= 1

\* C3: concurrent open() calls with no close among them create and start
\* exactly one kthread; concurrent close() calls that begin once the opens
\* have returned, with no open among them, stop it exactly once.
C3_OneStartOneStop ==
    pc[Core] = "bound" =>
        /\ phase = "opens" =>
              /\ nKthreads <= 1
              /\ nStops = 0
              /\ (refcnt >= 1 /\ ~OpenInProgress) =>
                    (nKthreads = 1 /\ Running(1) /\ poll_task = 1)
        /\ phase = "closes" =>
              /\ nKthreads = 1
              /\ nStops <= 1
              /\ (refcnt = 0) => nStops + Cardinality({t \in Consumers : pc[t] = "rel_stop"}) = 1
              /\ (refcnt = 0 /\ Quiescent) => kthread[1] = "exited"
              /\ (refcnt > 0) => (nStops = 0 /\ Running(1))

\* C3 witness: every consumer opened, two calls overlapped, then every
\* consumer closed, and the one kthread was stopped once.
C3_Witness ==
    /\ pc[Core] = "bound" /\ phase = "closes" /\ overlap /\ Quiescent
    /\ \A c \in Consumers : pc[c] = "closed"
    /\ refcnt = 0 /\ nKthreads = 1 /\ nStops = 1 /\ kthread[1] = "exited"

\* C4: a close() made when the reference count is already 0 fails with an
\* error (NotOpen) and leaves the reference count unchanged.  The close is
\* the release call of a removal with no consumer holding the device, seen
\* when it has just returned and no other call has run beside it.
C4_CloseAtZeroFails ==
    (relEntry = <<0>> /\ pc[Core] = "rm_unregister" /\ ~overlap) =>
        (relRet # <<0>> /\ refcnt = 0)

\* C5: the reference count is never negative.
C5_RefcntNonNegative == refcnt >= 0

\* C6: once removal has unmapped the regions, and when it has released the
\* record, the reference count is 0 and no poll kthread runs.
C6_RemovalDrainsSession ==
    pc[Core] \in {"rm_free", "rm_done"} => (refcnt = 0 /\ RunningKthreads = {})

\* C7: macb_uio_setup_iomem succeeds exactly when some region was mapped,
\* and the entries it recorded are the slots that were present and mapped:
\* no entry is recorded for a slot whose ioremap() failed.
C7_SetupCountsMappedOnly ==
    pc[Core] \in {"probe_sysfs", "fail_release_iomem"} =>
        /\ (err = 0) <=> (\E i \in Slots : mem[i].internal_addr # NULL)
        /\ \A i \in Slots :
              mem[i].memtype = "UIO_MEM_PHYS" => mem[i].internal_addr # NULL

\* C8: on a registered device every entry of mem[] that records a size has
\* a live mapping: its internal_addr is set and not yet unmapped.
C8_RegionsNeverPartial ==
    registered =>
        \A i \in Slots :
            mem[i].size # 0 => (mem[i].internal_addr # NULL /\ unmaps[i] = 0)

\* C9: when macb_uio_probe returns an error, the device is not registered,
\* drvdata is not set, the attribute group is gone, the record is released
\* (or was never allocated), every mapping made was unmapped exactly once,
\* and a failed allocation returns with nothing mapped.
C9_ProbeFailureUnwinds ==
    pc[Core] = "probe_failed" =>
        /\ probeRet \in {<<-ENOMEM>>, <<-ENOENT>>}
        /\ ~registered /\ ~drvdata /\ ~sysfsGroup
        /\ udev \in {"none", "freed"}
        /\ \A i \in Slots :
              unmaps[i] = IF mem[i].internal_addr # NULL THEN 1 ELSE 0
        /\ udev = "none" =>
              (probeRet = <<-ENOMEM>> /\ nTeardown = 0 /\ \A i \in Slots : mem[i] = ZeroMem)
        /\ udev = "freed" =>
              (nTeardown = 1 /\ ((probeRet = <<-ENOENT>>) <=> (Present(resources) = {})))
        /\ refcnt = 0 /\ nKthreads = 0

\* C9 witness: uio_register_device() failed after two regions were mapped,
\* and both were unmapped once on the way out.
C9_Witness ==
    /\ pc[Core] = "probe_failed" /\ udev = "freed" /\ probeRet = <<-ENOMEM>>
    /\ ~sysfsGroup /\ ~registered /\ nTeardown = 1
    /\ Cardinality({i \in Slots : mem[i].internal_addr # NULL /\ unmaps[i] = 1}) >= 2
    /\ \E i \in Slots : mem[i].memtype = "UIO_MEM_PHYS" /\ mem[i].internal_addr = NULL

\* C10: macb_uio_release_iomem called twice in a row issues at most one
\* iounmap per mapped region, and none for an entry with no mapping.
C10_TeardownIdempotent ==
    \A i \in Slots :
        /\ unmaps[i] <= 1
        /\ mem[i].internal_addr = NULL => unmaps[i] = 0

\* C11: a removal made while the reference count is 0 does not call
\* close(): while it goes on to unregister and unmap, with no other call
\* beside it, the count is still 0 and no release call has returned.
C11_RemovalAtZeroSkipsClose ==
    (relEntry = <<0>> /\ ~overlap /\ pc[Core] \in {"rm_unregister", "rm_iomem", "rm_free"}) =>
        (refcnt = 0 /\ relRet = <<>> /\ nStops = 0)

\* C12: when kthread_create() fails in the open() that took the count
\* from 0 to 1, that open() returns an error to its caller (the consumer is
\* back to closed, it neither holds the device nor dies in the handler),
\* the count stays 1 and no kthread runs.  Seen in runs with one call at a
\* time and no removal, where the error pointer in udev->poll_task marks
\* the failed creation; "open_wake" is the call still on its way.
C12_CreateFailureReturnsError ==
    (poll_task = ERR_PTR /\ ~overlap /\ pc[Core] = "bound") =>
        /\ \A c \in Consumers : pc[c] \in {"closed", "open_wake"}
        /\ refcnt = 1
        /\ RunningKthreads = {}

\* The j-th present slot of the descriptor, in slot order (j from 0).
NthPresent(res, j) ==
    CHOOSE sl \in Present(res) :
        Cardinality({t \in Present(res) : t < sl}) = j
\* Every entry macb_uio_setup_iomem recorded has a mapping: no ioremap() failed.
AllMapped == \A i \in Slots : mem[i].memtype = "UIO_MEM_PHYS" => mem[i].internal_addr # NULL
NumPresent == Cardinality(Present(resources))

\* C13: when every ioremap() succeeds, setup over a descriptor with present
\* and absent slots succeeds (it fails only with no present slot) and
\* fills mem[] without gaps: entry j is the j-th present slot, its address
\* the start rounded down to a page boundary, its size the resource size
\* rounded up to whole pages, and the entries after the last are untouched.
C13_SetupDenseInOrder ==
    /\ (pc[Core] = "fail_release_iomem" /\ err = -ENOENT) => NumPresent = 0
    /\ pc[Core] = "probe_sysfs" => (err = 0 /\ NumPresent > 0)
    /\ (pc[Core] \in {"probe_sysfs", "probe_register", "probe_drvdata", "bound"} /\ AllMapped) =>
          \A j \in Slots :
              IF j < NumPresent
              THEN LET r == resources[NthPresent(resources, j)] IN
                   /\ mem[j].memtype = "UIO_MEM_PHYS"
                   /\ mem[j].internal_addr # NULL
                   /\ mem[j].addr % PAGE_SIZE = 0
                   /\ mem[j].addr <= r.start /\ r.start - mem[j].addr < PAGE_SIZE
                   /\ mem[j].size % PAGE_SIZE = 0
                   /\ mem[j].size >= r.end - r.start + 1
                   /\ mem[j].size - (r.end - r.start + 1) < PAGE_SIZE
              ELSE mem[j] = ZeroMem

\* C13 witness: slot 0 absent, slots 1 and 2 present with different
\* resources, slot 3 absent; both mapped, and setup has returned 0 with
\* two entries, the first from slot 1.
C13_Witness ==
    /\ pc[Core] = "probe_sysfs" /\ err = 0 /\ AllMapped
    /\ Present(resources) = {1, 2}
    /\ resources[1] # resources[2]
    /\ mem[0].addr = PageMask(resources[1].start)
    /\ mem[1].addr = PageMask(resources[2].start)
    /\ mem[1].internal_addr # NULL /\ mem[2] = ZeroMem

\* C14: whenever no handler is in progress, the worker handle poll_task is
\* non-null exactly when the reference count is above 0; in particular the
\* close that brings the count to 0 leaves the handle null.
C14_HandleIffOpen ==
    (pc[Core] = "bound" /\ Quiescent) => ((poll_task # NULL) <=> (refcnt > 0))

\* C15: whatever the interleaving of the opens and closes, whenever no
\* handler is in progress a worker is running exactly when the reference
\* count is above 0; once every open has been closed no worker runs.
C15_ConcurrentWorkerIffOpen ==
    (pc[Core] = "bound" /\ Quiescent) => ((RunningKthreads # {}) <=> (refcnt > 0))

\* C16: a close that has brought the reference count to 0 always runs to
\* its return: from the decrement on, the closing consumer only moves to
\* the wait for the worker's exit and to the return, and is never killed
\* inside kthread_stop.
C16_CloseAtZeroReturns ==
    [][\A c \in Consumers :
          (pc[Core] = "bound" /\ pc[c] \in {"rel_stop", "rel_join"}) =>
              pc'[c] \in {"rel_stop", "rel_join", "closed"}]_vars

\* C17: under a fair scheduler a worker that keeps running, is not told
\* to stop and has the device open (count above 0) from some point on
\* calls uio_event_notify again and again; each iteration is the test of
\* the stop flag, the notification, the sleep, in this order; a worker
\* that saw the stop flag at the test exits and never notifies after it.
C17_WorkerLoop ==
    /\ [][\A k \in KthreadIds :
            /\ (kthread[k] = "check" /\ kthread'[k] # "check") =>
                  kthread'[k] = (IF k \in should_stop THEN "exited" ELSE "notify")
            /\ (kthread[k] = "notify" /\ kthread'[k] # "notify") =>
                  (kthread'[k] = "sleep" \/ (kthread'[k] = "exited" /\ udev = "freed"))
            /\ (kthread[k] = "sleep" /\ kthread'[k] # "sleep") => kthread'[k] = "check"
            /\ kthread[k] = "exited" => kthread'[k] = "exited"
            /\ kthread'[k] = "notify" => (kthread[k] = "notify" \/ k \notin should_stop)]_vars
    /\ \A k \in KthreadIds :
          <>[](refcnt > 0 /\ Running(k) /\ k \notin should_stop) => []<><<PollNotify(k)>>_vars

\* C17 witness: with the device open and no stop requested, kthread 1 has
\* notified and sleeps before its next test of the stop flag.
C17_Witness ==
    /\ refcnt > 0 /\ pc[Core] = "bound" /\ should_stop = {}
    /\ poll_task = 1 /\ kthread[1] = "sleep"

\* No region has been unmapped.
NoneUnmapped == \A i \in Slots : unmaps[i] = 0
\* Every region that was mapped has been unmapped, once.
AllUnmapped ==
    \A i \in Slots : unmaps[i] = (IF mem[i].internal_addr # NULL THEN 1 ELSE 0)

\* C18: macb_uio_remove closes first, then unregisters, then unmaps, then
\* frees the record: no region is unmapped while the device is registered,
\* and once removal has returned the device is unregistered, every region
\* that was mapped is unmapped and the record is freed.
C18_RemovalOrder ==
    /\ registered => NoneUnmapped
    /\ pc[Core] = "rm_unregister" =>
          (relEntry # <<>> /\ registered /\ udev = "allocated")
    /\ pc[Core] = "rm_iomem" =>
          (relEntry # <<>> /\ ~registered /\ NoneUnmapped /\ udev = "allocated")
    /\ pc[Core] = "rm_free" =>
          (~registered /\ AllUnmapped /\ udev = "allocated" /\ drvdata)
    /\ pc[Core] = "rm_done" =>
          (~registered /\ AllUnmapped /\ udev = "freed" /\ ~drvdata)

\* C18 witness: removal has returned for a device with one region mapped
\* and one whose ioremap() had failed; the mapped one was unmapped.
C18_Witness ==
    /\ pc[Core] = "rm_done"
    /\ \E i \in Slots : mem[i].internal_addr # NULL /\ unmaps[i] = 1
    /\ \E i \in Slots : mem[i].memtype = "UIO_MEM_PHYS" /\ mem[i].internal_addr = NULL

\* What an open or a close that is not the first or the last one leaves
\* alone: the handle, the kthreads and their stop flags, and the device.
workerVars == <<poll_task, kthread, should_stop, stopping, nKthreads>>
regionVars == <<resources, mem, unmaps>>

\* C19: an open whose incremented count is above 1 and a close whose
\* decremented count is above 0 return at once having changed the count
\* alone: the handle poll_task and every kthread's state stay as they
\* were; and no step of an open or a close changes the regions.
C19_MiddleOpenCloseOnlyCount ==
    [][\A c \in Consumers :
          /\ (pc[c] = "closed" /\ pc'[c] # "closed" /\ refcnt' > 1) =>
                /\ refcnt' = refcnt + 1
                /\ pc'[c] = "opened"
                /\ UNCHANGED workerVars
          /\ (pc[c] = "opened" /\ pc'[c] # "opened" /\ refcnt' > 0) =>
                /\ refcnt' = refcnt - 1
                /\ pc'[c] = "closed"
                /\ UNCHANGED workerVars
          /\ pc'[c] # pc[c] => UNCHANGED regionVars]_vars

\* C19 witness: both consumers hold the device open, the second open
\* having found the count at 1, and the one kthread of the first runs.
C19_Witness ==
    /\ refcnt = 2 /\ Outstanding = 2 /\ pc[Core] = "bound"
    /\ Cardinality(RunningKthreads) = 1 /\ nKthreads = 1
    /\ poll_task \in RunningKthreads

\* C20: every kthread_stop() call is made on a kthread that was created
\* and that no earlier call has stopped: the calls made so far are as many
\* as the kthreads told to stop.
C20_EveryStopHitsFreshWorker == nStops = Cardinality(should_stop)

====
